---- MODULE Spec2Model ----
(***************************************************************************)
(* Model of calibrate.py: the guided stereo capture loop                   *)
(* (Main.capture_images), the frame pairing it performs on packet_list,    *)
(* the per-side trials of Main.parse_frame, and the phase driver Main.run  *)
(* with the way each run ends (exit status, messages printed).             *)
(*                                                                         *)
(* Timestamps are integers in milliseconds.  The outcome of                *)
(* find_chessboard on a frame and the keys returned by cv2.waitKey are     *)
(* inputs of the actions.                                                  *)
(***************************************************************************)
EXTENDS Integers, Sequences, FiniteSets, Bags

\* ------------------------------------------------------------------ bounds
MaxCount == 2       \* repeat counts 1..MaxCount (-c/--count)
MaxPolygons == 2    \* pose counts 1..MaxPolygons
MaxImages == 4      \* sessions of at most MaxImages images in total
MaxTs == 1          \* timestamps 0..MaxTs (ms)
MaxBatch == 1       \* packets delivered by one poll, 0..MaxBatch
MaxList == 2        \* cap on the length packet_list has when an iteration ends

\* --------------------------------------------------------------- constants
KEY_NONE == -1      \* cv2.waitKey: no key pressed (a key with no binding is
                    \* handled the same way)
KEY_ESC == 27
KEY_Q == 113        \* ord("q")
KEY_SPACE == 32     \* ord(" ")
ToleranceMs == 1    \* 0.001 s
EXIT_SUCCESS == 0   \* Main().run() returns
EXIT_ABORT == 0     \* raise SystemExit(0)
EXIT_FAILURE == 1   \* raise SystemExit(1)
EXIT_EXCEPTION == 1 \* an exception nothing catches ends the interpreter with 1

Keys == {KEY_NONE, KEY_ESC, KEY_Q, KEY_SPACE}
AbortKeys == {KEY_ESC, KEY_Q}
Streams == {"left", "right"}
Packets == [stream_name : Streams, ts : 0..MaxTs]
Modes == {{"capture", "process"}, {"capture"}, {"process"}}
ImageOps == {"modify", "delete"}
\* how StereoCalibration.calibrate can end: it returns, it fails an assertion,
\* or it raises another exception
SolverOutcomes == {"ok", "assertion", "exception"}

RECURSIVE SeqsUpTo(_, _)
SeqsUpTo(S, n) ==
    IF n = 0 THEN {<<>>}
    ELSE LET shorter == SeqsUpTo(S, n - 1)
         IN shorter \cup {Append(q, x) : q \in {r \in shorter : Len(r) = n - 1}, x \in S}

DataLists == SeqsUpTo(Packets, MaxBatch)

\* a stream stamps its frames with increasing timestamps, so the packets of one
\* stream that sit in the buffer together carry increasing timestamps
Increasing(list) ==
    \A i \in 1..Len(list), j \in 1..Len(list) :
        (i < j /\ list[i].stream_name = list[j].stream_name) => list[i].ts < list[j].ts

Abs(x) == IF x < 0 THEN -x ELSE x

VARIABLES
    pc,                       \* position in Main.run
    mode, count, image_op,    \* args['mode'], args['count'], args['image_op']
    num_polygons,             \* len(setPolygonCoordinates(..))
    total_images,             \* self.total_images
    polygons,                 \* self.polygons is not None
    current_polygon, images_captured_polygon, images_captured,
    finished, capturing, captured_left, captured_right, tried_left, tried_right,
    packet_list,
    packet_pair,              \* the pair handed on by the latest iteration, <<>> if none
    key,
    dataset,                  \* names of the files under dataset/
    dataset_dir,              \* dataset/ exists
    device_inited,            \* depthai.init_device has returned True
    calibrate_runs,           \* calls of Main.calibrate
    cal_result,               \* how the solver ended, "none" before it ran
    exit_status,              \* status the process ends with
    printed,                  \* what was printed: "done", "error", "interrupted", "traceback"
    accepted,                 \* bag of the files written by the Success attempts
    key_read,                 \* value returned by the latest cv2.waitKey call
    sync_decision,            \* tolerance test of the latest iteration:
                              \* "pass", "fail", or "none" when it was not made
    attempt_state,            \* the attempt in progress ("active"), or how the latest
                              \* iteration resolved one ("success", "failure"), else "none"
    attempt_trials,           \* bag of the trials of that attempt
    attempt_writes            \* bag of the files written by that attempt

vars == <<pc, mode, count, num_polygons, total_images, polygons, current_polygon,
          images_captured_polygon, images_captured, finished, capturing,
          captured_left, captured_right, tried_left, tried_right, packet_list,
          packet_pair, key, dataset, key_read, sync_decision, attempt_state,
          attempt_trials, attempt_writes, image_op, dataset_dir, device_inited,
          calibrate_runs, cal_result, exit_status, printed, accepted>>

selfVars == <<current_polygon, images_captured_polygon, images_captured, polygons>>
loopVars == <<finished, capturing, captured_left, captured_right, tried_left,
              tried_right, packet_list, packet_pair, key>>
attemptVars == <<attempt_state, attempt_trials, attempt_writes, accepted>>
argVars == <<mode, count, image_op, num_polygons, total_images>>
runVars == <<dataset_dir, device_inited, calibrate_runs, cal_result, exit_status,
             printed>>

\* ------------------------------------------------------------- pure parts

\* image_filename(stream_name, polygon_index, total_num_of_captured_images)
ImageFilename(stream_name, polygon_index, image_index) ==
    <<stream_name, polygon_index, image_index>>

IsAbortEscOnly(k) == k = KEY_ESC

\* key == 27 or key == ord("q")
IsAbort(k) == k = KEY_ESC \/ k = KEY_Q

\* abs(ts0 - ts1) < 0.001 on the two most recent packets
SyncOk(list) ==
    Abs(list[Len(list) - 1].ts - list[Len(list)].ts) < ToleranceMs

\* packet_pair = [packet_list[0], packet_list[1]]
PacketPair(list) == <<list[1], list[2]>>

TrialSideRetry(cap, stream_name, tl, tr) ==
    IF ~cap THEN "none" ELSE stream_name

TrialSideAlways(cap, stream_name, tl, tr) ==
    IF stream_name = "left" /\ ~tl THEN "left"
    ELSE IF stream_name = "right" /\ ~tr THEN "right"
    ELSE "none"

TrialSideRetryLeft(cap, stream_name, tl, tr) ==
    IF ~cap THEN "none"
    ELSE IF stream_name = "left" THEN "left"
    ELSE IF stream_name = "right" /\ ~tr THEN "right"
    ELSE "none"

\* the side submitted to parse_frame for a packet, "none" when it is skipped
TrialSide(cap, stream_name, tl, tr) ==
    IF ~cap THEN "none"
    ELSE IF stream_name = "left" /\ ~tl THEN "left"
    ELSE IF stream_name = "right" /\ ~tr THEN "right"
    ELSE "none"

\* captured_left and captured_right
IsSuccess(cl, cr) == cl /\ cr

PolygonDoneEarly(ipc, c) == ipc + 1 = c

\* self.images_captured_polygon == self.args['count']
PolygonDone(ipc, c) == ipc = c

ParseFrameFixedIndex(s, stream_name, found) ==
    IF ~found THEN s
    ELSE LET filename == ImageFilename(stream_name, s.current_polygon, 0)
         IN [s EXCEPT !.dataset = @ \cup {filename},
                      !.attempt_writes = @ (+) SetToBag({filename})]

ParseFramePerPose(s, stream_name, found) ==
    IF ~found THEN s
    ELSE LET filename == ImageFilename(stream_name, s.current_polygon,
                                       s.images_captured_polygon)
         IN [s EXCEPT !.dataset = @ \cup {filename},
                      !.attempt_writes = @ (+) SetToBag({filename})]

\* Main.parse_frame: the file is written when the chessboard is found
ParseFrame(s, stream_name, found) ==
    IF ~found THEN s
    ELSE LET filename == ImageFilename(stream_name, s.current_polygon, s.images_captured)
         IN [s EXCEPT !.dataset = @ \cup {filename},
                      !.attempt_writes = @ (+) SetToBag({filename})]

\* if capturing: ... parse_frame ... tried_X = True
TryPacket(s, packet, found) ==
    LET side == TrialSide(s.capturing, packet.stream_name, s.tried_left, s.tried_right)
        w == ParseFrame(s, packet.stream_name, found)
        t == [w EXCEPT !.attempt_trials =
                           @ (+) SetToBag({[side |-> side, found |-> found]})]
    IN IF side = "left"
          THEN [t EXCEPT !.captured_left = found, !.tried_left = TRUE]
       ELSE IF side = "right"
          THEN [t EXCEPT !.captured_right = found, !.tried_right = TRUE]
       ELSE s

ResetAttemptKeepTried(s) ==
    [s EXCEPT !.capturing = FALSE,
              !.captured_left = FALSE, !.captured_right = FALSE]

\* capturing = False; tried_left = False; ... captured_right = False
ResetAttempt(s) ==
    [s EXCEPT !.capturing = FALSE, !.tried_left = FALSE, !.tried_right = FALSE,
              !.captured_left = FALSE, !.captured_right = FALSE]

\* Main.show_failed_capture_frame: the notice is shown and cv2.waitKey(2000)
\* is called; the key it returns is not used
ShowFailedCaptureFrame(s) == [s EXCEPT !.notice = TRUE]

\* the resolution of the attempt after a packet
Resolve(s) ==
    IF IsSuccess(s.captured_left, s.captured_right)
       THEN [ResetAttempt(s) EXCEPT
                !.images_captured = @ + 1,
                !.images_captured_polygon = @ + 1,
                !.attempt_state = "success",
                !.accepted = @ (+) s.attempt_writes]
    ELSE IF s.tried_left /\ s.tried_right
       THEN [ResetAttempt(ShowFailedCaptureFrame(s)) EXCEPT
                !.attempt_state = "failure", !.brk = TRUE]
    ELSE s

\* the pose advance after a packet
Advance(s) ==
    IF s.brk \/ ~PolygonDone(s.images_captured_polygon, s.count) THEN s
    ELSE LET a == [s EXCEPT !.images_captured_polygon = 0,
                            !.current_polygon = @ + 1]
         IN IF a.current_polygon = a.num_polygons
               THEN [a EXCEPT !.finished = TRUE, !.brk = TRUE]
               ELSE a

\* the body of "for packet in packet_pair"
ProcessPacket(s, packet, found) ==
    Advance(Resolve(TryPacket([s EXCEPT !.polygons = TRUE], packet, found)))

\* the status Main.calibrate leaves for a solver outcome
CalibrateStatusZero(outcome) == EXIT_SUCCESS

CalibrateStatus(outcome) ==
    IF outcome = "ok" THEN EXIT_SUCCESS
    ELSE IF outcome = "assertion" THEN EXIT_FAILURE
    ELSE EXIT_EXCEPTION

\* what Main.calibrate and the end of Main.run print for a solver outcome
CalibrateReport(outcome) ==
    IF outcome = "ok" THEN "done"
    ELSE IF outcome = "assertion" THEN "error"
    ELSE "traceback"

\* the outcomes find_chessboard can have on a packet, out of detect: it is
\* called only on a trial
Outcomes(s, packet, detect) ==
    IF TrialSide(s.capturing, packet.stream_name, s.tried_left, s.tried_right) = "none"
       THEN {FALSE} ELSE detect

\* ------------------------------------------------------------------ state

\* a file an earlier session left under dataset/
OldFile == ImageFilename("left", 0, 0)

InitRun ==
    /\ pc = "start"
    /\ mode \in Modes
    /\ num_polygons \in 1..MaxPolygons
    /\ count * num_polygons <= MaxImages
    /\ total_images = count * num_polygons
    /\ polygons = FALSE
    /\ current_polygon = 0
    /\ images_captured_polygon = 0
    /\ images_captured = 0
    /\ finished = FALSE
    /\ capturing = FALSE
    /\ captured_left = FALSE
    /\ captured_right = FALSE
    /\ tried_left = FALSE
    /\ tried_right = FALSE
    /\ packet_list = <<>>
    /\ packet_pair = <<>>
    /\ key = KEY_NONE
    /\ key_read = KEY_NONE
    /\ sync_decision = "none"
    /\ attempt_state = "none"
    /\ attempt_trials = EmptyBag
    /\ attempt_writes = EmptyBag
    /\ accepted = EmptyBag
    /\ device_inited = FALSE
    /\ calibrate_runs = 0
    /\ cal_result = "none"
    /\ exit_status = EXIT_SUCCESS
    /\ printed = {}

\* a session with the default image_op and a repeat count of at least 1
Init ==
    /\ count \in 1..MaxCount
    /\ image_op = "modify"
    /\ dataset_dir \in BOOLEAN
    /\ dataset = {}
    /\ InitRun

\* a session with any repeat count down to 0 and any image_op, started with or
\* without an earlier dataset
InitArgs ==
    /\ count \in 0..MaxCount
    /\ image_op \in ImageOps
    /\ dataset_dir \in BOOLEAN
    /\ dataset \in (IF dataset_dir THEN {{}, {OldFile}} ELSE {{}})
    /\ InitRun

RunsCaptureAlways(m) == TRUE

\* 'capture' in self.args['mode']
RunsCapture(m) == "capture" \in m

\* 'process' in self.args['mode']
RunsProcess(m) == "process" \in m

\* shutil.rmtree('dataset/') raises when dataset/ does not exist
RmtreeRaisesNever(op, dir) == FALSE

RmtreeRaises(op, dir) == op = "delete" /\ ~dir

\* Main.run up to show_info_frame: dataset directories, then the info screen
RunStart ==
    /\ pc = "start"
    /\ IF RunsCapture(mode)
          THEN IF RmtreeRaises(image_op, dataset_dir)
                  THEN \* except OSError: print(...); raise
                       /\ pc' = "dataset_error"
                       /\ printed' = printed \cup {"error", "traceback"}
                       /\ exit_status' = EXIT_EXCEPTION
                       /\ UNCHANGED <<dataset, dataset_dir>>
                  ELSE /\ pc' = "info"
                       /\ dataset' = IF image_op = "delete" THEN {} ELSE dataset
                       /\ dataset_dir' = TRUE
                       /\ UNCHANGED <<printed, exit_status>>
          ELSE /\ pc' = IF RunsProcess(mode) THEN "calibrate" ELSE "done"
               /\ printed' = IF RunsProcess(mode) THEN printed
                              ELSE printed \cup {"done"}
               /\ UNCHANGED <<dataset, dataset_dir, exit_status>>
    /\ UNCHANGED <<argVars, selfVars, loopVars, key_read, sync_decision,
                   attemptVars, device_inited, calibrate_runs, cal_result>>

\* one pass of the loop of Main.show_info_frame
InfoKey ==
    /\ pc = "info"
    /\ \E k \in Keys :
          /\ key_read' = k
          /\ pc' = IF k = KEY_SPACE THEN "pipeline"
                   ELSE IF IsAbort(k) THEN "aborted"
                   ELSE "info"
          /\ exit_status' = IF IsAbort(k) THEN EXIT_ABORT ELSE exit_status
    /\ UNCHANGED <<argVars, selfVars, loopVars, dataset, sync_decision, attemptVars,
                   dataset_dir, device_inited, calibrate_runs, cal_result, printed>>

\* Main.capture_images up to the loop: locals, get_pipeline
CaptureBegin ==
    /\ pc = "pipeline"
    /\ \E ok \in BOOLEAN :
          /\ pc' = IF ok THEN "capture" ELSE "device_error"
          /\ device_inited' = ok
          /\ exit_status' = IF ok THEN exit_status ELSE EXIT_EXCEPTION
          /\ printed' = IF ok THEN printed ELSE printed \cup {"traceback"}
    /\ UNCHANGED <<argVars, selfVars, loopVars, dataset, key_read, sync_decision,
                   attemptVars, dataset_dir, calibrate_runs, cal_result>>

LoopState(cap, newAttempt) ==
    LET resolved == attempt_state \in {"success", "failure"} IN
    [capturing |-> cap, captured_left |-> captured_left,
     captured_right |-> captured_right, tried_left |-> tried_left,
     tried_right |-> tried_right, finished |-> finished,
     current_polygon |-> current_polygon,
     images_captured_polygon |-> images_captured_polygon,
     images_captured |-> images_captured, polygons |-> polygons,
     count |-> count, num_polygons |-> num_polygons,
     dataset |-> dataset, notice |-> FALSE, brk |-> FALSE,
     attempt_state |-> IF newAttempt THEN "active"
                       ELSE IF resolved THEN "none" ELSE attempt_state,
     attempt_trials |-> IF newAttempt \/ resolved THEN EmptyBag ELSE attempt_trials,
     attempt_writes |-> IF newAttempt \/ resolved THEN EmptyBag ELSE attempt_writes,
     accepted |-> accepted]

\* one iteration of "while not finished" that reads an abort key
CaptureAbort ==
    /\ pc = "capture"
    /\ ~finished
    /\ \E data_list \in DataLists :
          /\ Len(packet_list) + Len(data_list) <= MaxList
          /\ Increasing(packet_list \o data_list)
          /\ packet_list' = packet_list \o data_list
    /\ \E k \in Keys :
          /\ IsAbort(k)
          /\ key' = k
          /\ key_read' = k
    /\ packet_pair' = <<>>
    /\ sync_decision' = "none"
    /\ pc' = "aborted"
    /\ printed' = printed \cup {"interrupted"}
    /\ exit_status' = EXIT_ABORT
    /\ UNCHANGED <<argVars, selfVars, finished, capturing, captured_left,
                   captured_right, tried_left, tried_right, dataset, attemptVars,
                   dataset_dir, device_inited, calibrate_runs, cal_result>>

\* the state an iteration leaves: the loop's variables, the object's fields, the
\* dataset, and where Main.run goes when the loop has ended.
Commit(s, k) ==
    \* a repeat count below 1 leaves images_captured without an upper limit:
    \* such a session is followed up to MaxImages images
    /\ IF count >= 1 THEN TRUE ELSE s.images_captured <= MaxImages
    /\ key' = k
    /\ \E nk \in (IF s.notice THEN Keys ELSE {k}) : key_read' = nk
    /\ capturing' = s.capturing
    /\ captured_left' = s.captured_left
    /\ captured_right' = s.captured_right
    /\ tried_left' = s.tried_left
    /\ tried_right' = s.tried_right
    /\ finished' = s.finished
    /\ current_polygon' = s.current_polygon
    /\ images_captured_polygon' = s.images_captured_polygon
    /\ images_captured' = s.images_captured
    /\ polygons' = s.polygons
    /\ dataset' = s.dataset
    /\ attempt_state' = s.attempt_state
    /\ attempt_trials' = s.attempt_trials
    /\ attempt_writes' = s.attempt_writes
    /\ accepted' = s.accepted
    /\ pc' = IF ~s.finished THEN "capture"
             ELSE IF RunsProcess(mode) THEN "calibrate"
             ELSE "done"
    /\ printed' = IF s.finished /\ ~RunsProcess(mode)
                     THEN printed \cup {"done"} ELSE printed
    /\ UNCHANGED <<dataset_dir, device_inited, calibrate_runs, cal_result,
                   exit_status>>

\* one iteration of "while not finished" that reads no abort key: the poll
\* delivers one of data_lists, the key is one of keys, find_chessboard answers
\* out of detect, and the tolerance test ends as one of decisions
CaptureIteration(data_lists, keys, detect, decisions) ==
    /\ pc = "capture"
    /\ ~finished
    /\ \E data_list \in data_lists :
          /\ \E k \in keys :
                /\ ~IsAbort(k)
                /\ \E list \in {packet_list \o data_list},
                      s0 \in {LoopState(capturing \/ k = KEY_SPACE,
                                        k = KEY_SPACE /\ ~capturing)} :
                      IF Len(list) > 1 /\ SyncOk(list)
                         THEN /\ "pass" \in decisions
                              /\ sync_decision' = "pass"
                              /\ packet_pair' = PacketPair(list)
                              /\ packet_list' = <<>>
                              /\ \E pair \in {PacketPair(list)} :
                                 \E f0 \in Outcomes(s0, pair[1], detect) :
                                 \E a \in {ProcessPacket(s0, pair[1], f0)} :
                                    IF a.brk THEN Commit(a, k)
                                    ELSE \E f1 \in Outcomes(a, pair[2], detect) :
                                         \E b \in {ProcessPacket(a, pair[2], f1)} :
                                            Commit(b, k)
                         ELSE /\ Len(list) <= MaxList
                              /\ (IF Len(list) > 1 THEN "fail" ELSE "none") \in decisions
                              /\ sync_decision' = IF Len(list) > 1 THEN "fail" ELSE "none"
                              /\ packet_pair' = <<>>
                              /\ packet_list' = list
                              /\ Commit(s0, k)
    /\ UNCHANGED argVars

SyncDecisions == {"pass", "fail", "none"}

\* each stream delivers its packets in the order of their timestamps
OrderedArrivals(list) == {d \in DataLists : Increasing(list \o d)}

CaptureStep ==
    CaptureIteration(OrderedArrivals(packet_list), Keys, BOOLEAN, SyncDecisions)

\* Main.calibrate and the end of Main.run
Calibrate ==
    /\ pc = "calibrate"
    /\ \E outcome \in SolverOutcomes :
          /\ cal_result' = outcome
          /\ exit_status' = CalibrateStatus(outcome)
          /\ printed' = printed \cup {CalibrateReport(outcome)}
          /\ pc' = IF outcome = "ok" THEN "done"
                   ELSE IF outcome = "assertion" THEN "failed"
                   ELSE "crashed"
    /\ calibrate_runs' = calibrate_runs + 1
    /\ UNCHANGED <<argVars, selfVars, loopVars, dataset, key_read, sync_decision,
                   attemptVars, dataset_dir, device_inited>>

Next == RunStart \/ InfoKey \/ CaptureBegin \/ CaptureAbort \/ CaptureStep \/ Calibrate

Spec == Init /\ [][Next]_vars

SpecArgs == InitArgs /\ [][Next]_vars

\* the keys of an operator who presses the spacebar whenever no attempt is
\* active and never an abort key
TriggerKey(cap) == IF cap THEN Keys \ AbortKeys ELSE {KEY_SPACE}

\* no stream delivers two packets of one timestamp; the timestamps 0..MaxTs
\* are reused once the buffer is cleared, so that a packet can always arrive
Distinct(list) ==
    \A i \in 1..Len(list), j \in 1..Len(list) : i < j => list[i] # list[j]

LiveArrivals(list) == {d \in DataLists : Distinct(list \o d)}

NewArrivals(list) == LiveArrivals(list) \ {<<>>}

\* an iteration of the capture loop with that operator, in which
\* find_chessboard succeeds on every frame it is given
LiveStep ==
    CaptureIteration(LiveArrivals(packet_list), TriggerKey(capturing), {TRUE},
                     SyncDecisions)

\* such an iteration in which the poll delivers at least one packet
ArrivalStep ==
    CaptureIteration(NewArrivals(packet_list), TriggerKey(capturing), {TRUE},
                     SyncDecisions)

\* such an iteration after which the two most recent packets are within the
\* tolerance: they have the same timestamp and are distinct, so they are a left
\* and a right packet
MatchedStep ==
    CaptureIteration(NewArrivals(packet_list), TriggerKey(capturing), {TRUE},
                     {"pass"})

NextLive == RunStart \/ InfoKey \/ CaptureBegin \/ LiveStep \/ Calibrate

\* the poll loop keeps running, and matched left/right packets keep arriving
SpecLive ==
    /\ Init
    /\ [][NextLive]_vars
    /\ WF_vars(LiveStep)
    /\ WF_vars(ArrivalStep)
    /\ SF_vars(MatchedStep)

\* sessions of one image, with any image_op and with or without an earlier dataset
InitPhases ==
    /\ InitArgs
    /\ count = 1
    /\ num_polygons = 1

SpecPhases == InitPhases /\ [][Next]_vars

\* ----------------------------------------------------------------- claims

Found(side) == [side |-> side, found |-> TRUE]

\* C1: with a repeat count of at least 1, finished is set exactly when
\* images_captured reaches num_polygons * count; it is never set with fewer
\* captured images and images_captured never exceeds that number.
SessionCompleteExactly ==
    /\ images_captured <= num_polygons * count
    /\ finished <=> images_captured = num_polygons * count

SessionCompleteReached ==
    /\ finished
    /\ num_polygons = MaxPolygons
    /\ count = MaxCount
    /\ images_captured = MaxPolygons * MaxCount

\* C2: an attempt in which pattern detection failed on a side has written no
\* image, neither for the failing side nor for the other one.
NoWriteOnFailedTrial ==
    (\E t \in BagToSet(attempt_trials) : ~t.found) => attempt_writes = EmptyBag

PairWithinTolerance ==
    packet_pair # <<>> =>
        Abs(packet_pair[1].ts - packet_pair[2].ts) < ToleranceMs

\* C5: after every tolerance test, passed or failed, packet_list is empty.
BufferEmptyAfterDecision ==
    sync_decision # "none" => packet_list = <<>>

\* C6: the two packets handed on for processing are one left packet and one
\* right packet.
PairOnePerSide ==
    packet_pair # <<>> =>
        {packet_pair[1].stream_name, packet_pair[2].stream_name} = Streams

\* C7: the iteration that reads an abort key processes no packet, writes nothing,
\* changes no session counter and ends the run as aborted; nothing happens
\* after that, so the calibration phase is not started.
AbortHaltsStep ==
    (key' \in AbortKeys \/ pc = "aborted") =>
        /\ pc' = "aborted"
        /\ packet_pair' = <<>>
        /\ UNCHANGED <<dataset, selfVars, attemptVars, finished, capturing,
                       captured_left, captured_right, tried_left, tried_right>>

AbortHalts == [][AbortHaltsStep]_vars

AbortedMidAttempt ==
    /\ pc = "aborted"
    /\ key \in AbortKeys
    /\ capturing
    /\ tried_left # tried_right
    /\ packet_list # <<>>

\* C8: every abort key returned by cv2.waitKey while the session runs ends the
\* session.
AbortKeyObserved ==
    key_read \in AbortKeys => pc = "aborted"

\* C9: when the session is aborted with an attempt in progress, the dataset holds
\* no image written by that attempt.
AbortDiscardsAttempt ==
    (pc = "aborted" /\ attempt_state = "active") =>
        BagToSet(attempt_writes) \cap dataset = {}

\* C10: trials and writes belong to a triggered attempt, and an iteration that
\* starts with no attempt active and goes on to its packets has one only when it
\* reads the trigger key.
TrialOnlyWhenTriggeredStep ==
    /\ (attempt_trials' # EmptyBag \/ attempt_writes' # EmptyBag)
          => attempt_state' # "none"
    /\ (dataset' # dataset) => attempt_state' # "none"
    /\ (pc = "capture" /\ pc' # "aborted" /\ ~capturing /\ attempt_state' # "none")
          => key' = KEY_SPACE

TrialOnlyWhenTriggered == [][TrialOnlyWhenTriggeredStep]_vars

IdlePairAfterResolution ==
    /\ images_captured > 0
    /\ ~capturing
    /\ attempt_state = "none"
    /\ packet_pair # <<>>
    /\ key # KEY_SPACE
    /\ pc = "capture"

\* C11: for every repeat count the arguments admit, current_polygon changes only
\* by one step up, in an iteration in which an attempt resolves to Success, and
\* the capture loop is left without an abort only after a Success.
PoseAdvancesOnlyOnSuccess ==
    [][/\ current_polygon' # current_polygon
            => /\ current_polygon' = current_polygon + 1
               /\ attempt_state' = "success"
       /\ (pc = "capture" /\ pc' \notin {"capture", "aborted"})
            => images_captured' > 0]_vars

\* C12: no two Success attempts wrote a file of the same name, and an attempt
\* that is not accepted (active, or resolved to Failure) has written no file
\* under the name of a file a Success attempt wrote.
AcceptedNamesUnique ==
    /\ \A n \in BagToSet(accepted) : CopiesIn(n, accepted) = 1
    /\ attempt_state \in {"active", "failure"}
          => BagToSet(attempt_writes) \cap BagToSet(accepted) = {}

LaterAttemptWrites ==
    /\ BagCardinality(accepted) >= 4
    /\ attempt_state \in {"active", "failure"}
    /\ attempt_writes # EmptyBag

\* C13: with only 'process' in the mode the device is never initialised, the
\* dataset and its directories are left as they were, no capture step runs and
\* calibrate runs at most once, exactly once when the run has ended; with both
\* phases, calibrate starts only after the capture loop has set finished.
PhasesIndependentStep ==
    /\ mode = {"process"}
          => /\ UNCHANGED <<dataset, dataset_dir, device_inited, selfVars, loopVars,
                            attemptVars>>
             /\ ~device_inited'
             /\ pc' \notin {"info", "pipeline", "capture", "aborted"}
             /\ calibrate_runs' <= 1
             /\ pc' \in {"done", "failed", "crashed"} => calibrate_runs' = 1
    /\ (mode = {"capture", "process"} /\ pc' = "calibrate" /\ pc # "calibrate")
          => /\ finished'
             /\ images_captured' = total_images
             /\ calibrate_runs' = 0
    /\ calibrate_runs' > 0 => "process" \in mode

PhasesIndependent == [][PhasesIndependentStep]_vars

ProcessOnlyDone ==
    /\ mode = {"process"}
    /\ image_op = "delete"
    /\ dataset = {OldFile}
    /\ pc = "done"
    /\ calibrate_runs = 1

CalibrateAfterCapture ==
    /\ mode = {"capture", "process"}
    /\ pc = "failed"
    /\ finished

\* C14: once the solver has failed, the run has ended with a status other than
\* the success status, the cause has been printed and 'DONE' has not; once the
\* solver has succeeded, the run has ended with the success status and 'DONE'.
SolverFailureReported ==
    /\ cal_result \in {"assertion", "exception"}
          => /\ pc \in {"failed", "crashed"}
             /\ exit_status # EXIT_SUCCESS
             /\ printed \cap {"error", "traceback"} # {}
             /\ "done" \notin printed
    /\ cal_result = "ok"
          => /\ pc = "done"
             /\ exit_status = EXIT_SUCCESS
             /\ "done" \in printed

SolverFailedAfterCapture ==
    /\ cal_result = "assertion"
    /\ finished
    /\ images_captured = MaxPolygons * MaxCount

\* C15: a run ended by an operator abort, at the info screen or in the capture
\* loop, has a status that differs from the status of a successful run and from
\* the status of a calibration failure.
AbortStatusDistinct ==
    pc = "aborted" => /\ exit_status # EXIT_SUCCESS
                      /\ exit_status # EXIT_FAILURE

\* C16: with image_op = 'delete' and the capture phase selected, the preparation
\* of the dataset never ends the run, and the capture phase starts (info screen)
\* with the left and right directories present and no file in them, whether or
\* not a dataset existed before the run.
DeleteStartsEmptyCapture ==
    (image_op = "delete" /\ RunsCapture(mode) /\ pc # "start")
        => /\ pc # "dataset_error"
           /\ dataset_dir
           /\ pc = "info" => dataset = {}

TrialsOf(side, trials) ==
    CopiesIn([side |-> side, found |-> TRUE], trials)
        + CopiesIn([side |-> side, found |-> FALSE], trials)

\* C17: within one attempt each side is submitted to detection at most once:
\* while tried_left stays set, no further left packet is tried and captured_left
\* keeps its value, and the same for the right side.
EachSideTriedOnceStep ==
    /\ \A side \in Streams : TrialsOf(side, attempt_trials') <= 1
    /\ (tried_left /\ tried_left')
          => /\ captured_left' = captured_left
             /\ TrialsOf("left", attempt_trials') = TrialsOf("left", attempt_trials)
    /\ (tried_right /\ tried_right')
          => /\ captured_right' = captured_right
             /\ TrialsOf("right", attempt_trials') = TrialsOf("right", attempt_trials)

EachSideTriedOnce == [][EachSideTriedOnceStep]_vars

SecondLeftPacketSkipped ==
    /\ capturing
    /\ tried_left
    /\ ~tried_right
    /\ Len(packet_pair) = 2
    /\ packet_pair[1].stream_name = "left"
    /\ packet_pair[2].stream_name = "left"
    /\ TrialsOf("left", attempt_trials) = 1

\* C18: in every state in which capturing is False the four flags tried_left,
\* tried_right, captured_left and captured_right are False, and in every state
\* captured_left implies tried_left and captured_right implies tried_right.
IdleFlagsClear ==
    /\ ~capturing => ~(tried_left \/ tried_right \/ captured_left \/ captured_right)
    /\ captured_left => tried_left
    /\ captured_right => tried_right

IdleAfterFailure ==
    /\ pc = "capture"
    /\ ~capturing
    /\ attempt_state = "failure"
    /\ images_captured > 0

SessionEventuallyComplete ==
    /\ capturing ~> ~capturing
    /\ (pc = "capture") ~> finished

====
